---- MODULE Spec2Model ----
(***************************************************************************)
(* State-machine model of the two price watchers of the repository:        *)
(*   auto_buy_alpha.py  (the buy watcher: parse_args, main, __main__)      *)
(*   sell.py            (the sell watcher: module loop, unstake)           *)
(*                                                                         *)
(* Amounts.  A Balance of the chain client is a whole number of rao.       *)
(* A "tao" float (args.amount_tao, args.threshold_tao, balance.tao,        *)
(* price.tao) is modelled as a whole number of units of 1/TaoScale rao,    *)
(* so a tao value can be finer than one rao; Balance.from_tao truncates to *)
(* whole rao and Balance.tao converts back.  The arithmetic is exact: the  *)
(* rounding of binary floating point is outside the model.                 *)
(***************************************************************************)
EXTENDS Integers, Sequences, FiniteSets, TLC

\* ---------------------------------------------------------------- bounds
TaoScale == 2         \* tao units per rao (resolution of the float values)
MaxAmount == 4        \* --amount-tao ranges over 0..MaxAmount tao units
MaxThreshold == 2     \* --threshold-tao ranges over 0..MaxThreshold tao units
MaxInterval == 1      \* --interval ranges over 0..MaxInterval
MaxStakes == 2        \* --max-swaps ranges over -1..MaxStakes
MaxPrice == 1         \* get_subnet_price answers 0..MaxPrice rao
MaxBalance == 2       \* get_balance answers 0..MaxBalance rao
MaxCompleted == 3     \* cap on stakes_completed when --max-swaps is 0
MaxFailRun == 2       \* longest run of consecutive failed price queries
MaxStake == 0         \* get_stake_for_hotkey answers 0..MaxStake rao
MaxCnt == 3           \* cap on cnt of the sell watcher
MaxSellBalance == 2   \* sell watcher: get_balance answers 0..MaxSellBalance
PriceSpread == 1      \* sell watcher: prices within PriceSpread of a threshold

\* ------------------------------------------- constants of sell.py, in rao
InterestThreshold == 1500000   \* 0.0015 TAO
TriggerThreshold == 2000000    \* 0.0020 TAO
StatusEvery == 200             \* status line every 200 loops
ShortSleepMs == 50             \* time.sleep(0.05)
LongSleepMs == 100             \* time.sleep(0.1)

\* ------------------------------------------------------- optional values
None == <<>>
Some(v) == <<v>>

VARIABLES
    \* buy watcher (auto_buy_alpha.py)
    args,              \* the parsed command line (Args)
    pc,                \* position of the buy watcher
    stakes_completed,  \* main: the action counter
    price,             \* main: last price read (None before the first read)
    coldkey_balance,   \* main: Optional[Balance]
    origin_stake,      \* main: Optional[Balance]
    destination_stake, \* main: Optional[Balance]
    net,               \* what of the network the run has touched
    cyc,               \* what the current cycle has done so far
    fail_run,          \* consecutive cycles whose price query failed
    fail_base,         \* stakes_completed when that run of failures began
    exit_code,         \* process exit status (None while running)
    log,               \* the closing log lines written so far
    \* sell watcher (sell.py)
    s_pc,              \* position of the sell watcher
    cnt,               \* module global: loop iterations above the interest level
    sell_cnt,          \* module global: successful unstake operations
    balance,           \* module global: last known coldkey balance
    s_price,           \* module loop: the price read in this cycle
    s_cyc              \* what the current cycle of the sell watcher has done

buy_vars == <<args, pc, stakes_completed, price, coldkey_balance, origin_stake,
              destination_stake, net, cyc, fail_run, fail_base, exit_code, log>>

sell_vars == <<s_pc, cnt, sell_cnt, balance, s_price, s_cyc>>

vars == <<buy_vars, sell_vars>>

\* -------------------------------------------------------- pure functions

\* Balance.from_tao(tao): a float amount of tao to a Balance of whole rao.
FromTao(t) == t \div TaoScale

\* Balance.tao: a Balance of whole rao as a float amount of tao.
Tao(b) == b * TaoScale

Min(a, b) == IF a <= b THEN a ELSE b

\* Mutant of ArgsValid: the check of --rate-tolerance (lines 168-169) left out.
ArgsValidNoTolerance(a) ==
    /\ a.wallet_name # ""
    /\ a.wallet_hotkey # ""
    /\ ~(a.amount_tao <= 0)
    /\ ~(a.threshold_tao <= 0)
    /\ ~(a.interval <= 0)
    /\ ~(a.max_stakes < 0)

\* parse_args: the checks that call parser.error.
ArgsValid(a) ==
    /\ a.wallet_name # ""
    /\ a.wallet_hotkey # ""
    /\ ~(a.amount_tao <= 0)
    /\ ~(a.threshold_tao <= 0)
    /\ ~(a.interval <= 0)
    /\ ~(a.max_stakes < 0)
    /\ ~(a.rate_tolerance < 0)

\* Mutant of BuyTriggered: the comparison the wrong way round.
BuyTriggeredFlipped(price_tao, threshold_tao) == price_tao >= threshold_tao

\* main, line 277: the buy trigger.
BuyTriggered(price_tao, threshold_tao) == price_tao <= threshold_tao

\* Mutant of StakeTao: without --allow-partial the whole balance is staked.
StakeTaoAvailable(a, available_tao) ==
    IF a.allow_partial THEN Min(available_tao, a.amount_tao) ELSE available_tao

\* Mutant of StakeTao: --allow-partial ignored, the requested amount is staked.
StakeTaoRequested(a, available_tao) == a.amount_tao

\* main, line 305: the size of the stake.
StakeTao(a, available_tao) ==
    IF a.allow_partial THEN Min(available_tao, a.amount_tao) ELSE a.amount_tao

NoDecision == [kind |-> "Pending", reason |-> "", amount |-> 0]
Skip(why) == [kind |-> "None", reason |-> why, amount |-> 0]
Execute(amount) == [kind |-> "Execute", reason |-> "", amount |-> amount]

\* Mutant of decide: the guards of lines 282-295 (balance unknown, balance <= 0)
\* left out.
decideNoBalanceGuard(p, bal, a) ==
    IF BuyTriggered(Tao(p), a.threshold_tao)
    THEN IF bal # None /\ ~a.allow_partial /\ Tao(bal[1]) < a.amount_tao
         THEN Skip("insufficient")
         ELSE IF bal # None /\ a.allow_partial /\ Tao(bal[1]) > 0
         THEN Execute(FromTao(Min(Tao(bal[1]), a.amount_tao)))
         ELSE Execute(FromTao(a.amount_tao))
    ELSE Skip("above_threshold")

\* main, lines 277-312: what one cycle decides from the price, the coldkey
\* balance and the arguments.
decide(p, bal, a) ==
    IF BuyTriggered(Tao(p), a.threshold_tao)
    THEN IF bal = None
         THEN Skip("balance_unavailable")
         ELSE IF Tao(bal[1]) <= 0
         THEN Skip("no_liquid")
         ELSE IF ~a.allow_partial /\ Tao(bal[1]) < a.amount_tao
         THEN Skip("insufficient")
         ELSE IF StakeTao(a, Tao(bal[1])) <= 0
         THEN Skip("zero")
         ELSE Execute(FromTao(StakeTao(a, Tao(bal[1]))))
    ELSE Skip("above_threshold")

\* main, line 230: the loop condition.
LoopCondition(a, done) == a.max_stakes = 0 \/ done < a.max_stakes

\* Mutant of BudgetReached: > in place of >=.
BudgetReachedStrict(a, done) == a.max_stakes # 0 /\ done > a.max_stakes

\* main, line 345: the stop test after an attempted stake.
BudgetReached(a, done) == a.max_stakes # 0 /\ done >= a.max_stakes

\* ------------------------------------------------------------ buy: state

ArgsSpace ==
    [wallet_name : {"", "w"},
     wallet_hotkey : {"default"},
     amount_tao : 0..MaxAmount,
     threshold_tao : 0..MaxThreshold,
     interval : 0..MaxInterval,
     max_stakes : -1..MaxStakes,
     dry_run : BOOLEAN,
     allow_partial : BOOLEAN,
     rate_tolerance : {-1, 0}]

NewCycle(base) ==
    [base |-> base,            \* stakes_completed when the cycle began
     price_q |-> 0,            \* get_subnet_price calls
     price_failed |-> FALSE,
     balance_q |-> 0,          \* get_balance calls
     stake_q |-> 0,            \* get_stake_for_hotkey calls
     decision |-> NoDecision,
     dry_logged |-> <<>>,      \* amounts logged by the dry-run line
     submitted |-> <<>>,       \* amounts passed to add_stake
     result |-> "none",        \* how add_stake ended: raised, true, false
     sleeps |-> <<>>]          \* durations passed to time.sleep

StakeAnswers == 0..MaxStake

NoNet == [imported |-> FALSE, wallet |-> FALSE, connected |-> FALSE]

InitBuy ==
    /\ args \in ArgsSpace
    /\ pc = "parse_args"
    /\ stakes_completed = 0
    /\ price = None
    /\ coldkey_balance = None
    /\ origin_stake = None
    /\ destination_stake = None
    /\ net = NoNet
    /\ cyc = NewCycle(0)
    /\ fail_run = 0
    /\ fail_base = 0
    /\ exit_code = None
    /\ log = [finished |-> None, interrupted |-> FALSE, sigint |-> FALSE,
              error |-> ""]

\* ---------------------------------------------------------- buy: startup

\* parse_args, lines 154-187: parser.error ends the process with status 2.
ParseArgs ==
    /\ pc = "parse_args"
    /\ IF ArgsValid(args)
       THEN /\ pc' = "import"
            /\ UNCHANGED exit_code
       ELSE /\ pc' = "exited"
            /\ exit_code' = Some(2)
    /\ UNCHANGED <<sell_vars, args, stakes_completed, price, coldkey_balance, origin_stake,
                   destination_stake, net, cyc, fail_run, fail_base, log>>

\* An exception that leaves main is not a KeyboardInterrupt: the interpreter
\* prints the traceback and ends with status 1.
Crash(error) ==
    /\ pc' = "exited"
    /\ exit_code' = Some(1)
    /\ log' = [log EXCEPT !.error = error]

\* main, lines 209-218: the imports (local names of main) and the start line.
ImportOk ==
    /\ pc = "import"
    /\ pc' = "load_wallet"
    /\ net' = [net EXCEPT !.imported = TRUE]
    /\ UNCHANGED <<sell_vars, args, stakes_completed, price, coldkey_balance, origin_stake,
                   destination_stake, cyc, fail_run, fail_base, exit_code, log>>

ImportFail ==
    /\ pc = "import"
    /\ Crash("RuntimeError")
    /\ UNCHANGED <<sell_vars, args, stakes_completed, price, coldkey_balance, origin_stake,
                   destination_stake, net, cyc, fail_run, fail_base>>

\* main, lines 220-222, and load_wallet, lines 190-197.
LoadWalletOk ==
    /\ pc = "load_wallet"
    /\ pc' = "connect"
    /\ net' = [net EXCEPT !.wallet = TRUE]
    /\ UNCHANGED <<sell_vars, args, stakes_completed, price, coldkey_balance, origin_stake,
                   destination_stake, cyc, fail_run, fail_base, exit_code, log>>

LoadWalletFail ==
    /\ pc = "load_wallet"
    /\ Crash("RuntimeError")
    /\ net' = [net EXCEPT !.wallet = TRUE]
    /\ UNCHANGED <<sell_vars, args, stakes_completed, price, coldkey_balance, origin_stake,
                   destination_stake, cyc, fail_run, fail_base>>

\* main, lines 224-229: the chain connection, target_amount, the counter.
ConnectOk ==
    /\ pc = "connect"
    /\ pc' = "while"
    /\ net' = [net EXCEPT !.connected = TRUE]
    /\ stakes_completed' = 0
    /\ UNCHANGED <<sell_vars, args, price, coldkey_balance, origin_stake,
                   destination_stake, cyc, fail_run, fail_base, exit_code, log>>

ConnectFail ==
    /\ pc = "connect"
    /\ Crash("Exception")
    /\ net' = [net EXCEPT !.connected = TRUE]
    /\ UNCHANGED <<sell_vars, args, stakes_completed, price, coldkey_balance, origin_stake,
                   destination_stake, cyc, fail_run, fail_base>>

\* ------------------------------------------------------------- buy: loop

\* main, lines 230-233: the loop test and the reset of the cycle's locals.
While ==
    /\ pc = "while"
    /\ IF LoopCondition(args, stakes_completed)
       THEN /\ pc' = "get_price"
            /\ coldkey_balance' = None
            /\ origin_stake' = None
            /\ destination_stake' = None
            /\ cyc' = NewCycle(stakes_completed)
       ELSE /\ pc' = "finish"
            /\ UNCHANGED <<coldkey_balance, origin_stake, destination_stake, cyc>>
    /\ UNCHANGED <<sell_vars, args, stakes_completed, price, net, fail_run, fail_base, exit_code, log>>

\* main, lines 235-244: the price query answers.
GetPriceOk ==
    /\ pc = "get_price"
    /\ \E p \in 0..MaxPrice : price' = Some(p)
    /\ cyc' = [cyc EXCEPT !.price_q = @ + 1]
    /\ fail_run' = 0
    /\ UNCHANGED fail_base
    /\ pc' = "get_balance"
    /\ UNCHANGED <<sell_vars, args, stakes_completed, coldkey_balance, origin_stake,
                   destination_stake, net, exit_code, log>>

\* Mutant of GetPriceFail: the sleep of line 239 missing before the continue.
GetPriceFailNoSleep ==
    /\ pc = "get_price"
    /\ fail_run < MaxFailRun
    /\ cyc' = [cyc EXCEPT !.price_q = @ + 1, !.price_failed = TRUE]
    /\ fail_run' = fail_run + 1
    /\ fail_base' = IF fail_run = 0 THEN stakes_completed ELSE fail_base
    /\ pc' = "while"
    /\ UNCHANGED <<sell_vars, args, stakes_completed, price, coldkey_balance,
                   origin_stake, destination_stake, net, exit_code, log>>

\* Mutant of GetPriceFail: the try of line 235 missing, so that the exception
\* of the price query leaves main.
GetPriceFailFatal ==
    /\ pc = "get_price"
    /\ fail_run < MaxFailRun
    /\ cyc' = [cyc EXCEPT !.price_q = @ + 1, !.price_failed = TRUE]
    /\ fail_run' = fail_run + 1
    /\ fail_base' = IF fail_run = 0 THEN stakes_completed ELSE fail_base
    /\ Crash("Exception")
    /\ UNCHANGED <<sell_vars, args, stakes_completed, price, coldkey_balance,
                   origin_stake, destination_stake, net>>

\* main, lines 235-240: the price query raises; sleep and continue.
GetPriceFail ==
    /\ pc = "get_price"
    /\ fail_run < MaxFailRun
    /\ cyc' = [cyc EXCEPT !.price_q = @ + 1, !.price_failed = TRUE]
    /\ fail_run' = fail_run + 1
    /\ fail_base' = IF fail_run = 0 THEN stakes_completed ELSE fail_base
    /\ pc' = "sleep"
    /\ UNCHANGED <<sell_vars, args, stakes_completed, price, coldkey_balance, origin_stake,
                   destination_stake, net, exit_code, log>>

\* main, lines 246-249.
GetBalanceOk ==
    /\ pc = "get_balance"
    /\ \E b \in 0..MaxBalance : coldkey_balance' = Some(b)
    /\ cyc' = [cyc EXCEPT !.balance_q = @ + 1]
    /\ pc' = "get_origin_stake"
    /\ UNCHANGED <<sell_vars, args, stakes_completed, price, origin_stake,
                   destination_stake, net, fail_run, fail_base, exit_code, log>>

GetBalanceFail ==
    /\ pc = "get_balance"
    /\ cyc' = [cyc EXCEPT !.balance_q = @ + 1]
    /\ pc' = "get_origin_stake"
    /\ UNCHANGED <<sell_vars, args, stakes_completed, price, coldkey_balance, origin_stake,
                   destination_stake, net, fail_run, fail_base, exit_code, log>>

\* main, lines 251-259.
GetOriginStakeOk ==
    /\ pc = "get_origin_stake"
    /\ \E b \in StakeAnswers : origin_stake' = Some(b)
    /\ cyc' = [cyc EXCEPT !.stake_q = @ + 1]
    /\ pc' = "get_destination_stake"
    /\ UNCHANGED <<sell_vars, args, stakes_completed, price, coldkey_balance,
                   destination_stake, net, fail_run, fail_base, exit_code, log>>

GetOriginStakeFail ==
    /\ pc = "get_origin_stake"
    /\ cyc' = [cyc EXCEPT !.stake_q = @ + 1]
    /\ pc' = "get_destination_stake"
    /\ UNCHANGED <<sell_vars, args, stakes_completed, price, coldkey_balance, origin_stake,
                   destination_stake, net, fail_run, fail_base, exit_code, log>>

\* main, lines 261-275.
GetDestinationStakeOk ==
    /\ pc = "get_destination_stake"
    /\ \E b \in StakeAnswers : destination_stake' = Some(b)
    /\ cyc' = [cyc EXCEPT !.stake_q = @ + 1]
    /\ pc' = "decide"
    /\ UNCHANGED <<sell_vars, args, stakes_completed, price, coldkey_balance, origin_stake,
                   net, fail_run, fail_base, exit_code, log>>

GetDestinationStakeFail ==
    /\ pc = "get_destination_stake"
    /\ cyc' = [cyc EXCEPT !.stake_q = @ + 1]
    /\ pc' = "decide"
    /\ UNCHANGED <<sell_vars, args, stakes_completed, price, coldkey_balance, origin_stake,
                   destination_stake, net, fail_run, fail_base, exit_code, log>>

\* Mutant of Submits: --dry-run ignored.
SubmitsAlways(a) == TRUE

\* main, line 314: whether an Execute decision is submitted to the chain.
Submits(a) == ~a.dry_run

\* main, lines 277-322: the branches up to the dry-run line or the call of
\* add_stake.
Decide ==
    /\ pc = "decide"
    /\ LET d == decide(price[1], coldkey_balance, args) IN
       /\ d.kind = "Execute" /\ ~Submits(args) => stakes_completed < MaxCompleted
       /\ IF d.kind = "None"
          THEN /\ cyc' = [cyc EXCEPT !.decision = d]
               /\ pc' = "sleep"
               /\ UNCHANGED stakes_completed
          ELSE IF ~Submits(args)
          THEN /\ cyc' = [cyc EXCEPT !.decision = d,
                                     !.dry_logged = Append(@, d.amount)]
               /\ stakes_completed' = stakes_completed + 1
               /\ pc' = "check_max"
          ELSE /\ cyc' = [cyc EXCEPT !.decision = d]
               /\ pc' = "add_stake"
               /\ UNCHANGED stakes_completed
    /\ UNCHANGED <<sell_vars, args, price, coldkey_balance, origin_stake,
                   destination_stake, net, fail_run, fail_base, exit_code, log>>

\* Mutant of AddStakeRaise: the try of line 324 missing, so that the exception
\* of add_stake leaves main.
AddStakeRaiseFatal ==
    /\ pc = "add_stake"
    /\ cyc' = [cyc EXCEPT !.submitted = Append(@, cyc.decision.amount),
                          !.result = "raised"]
    /\ Crash("Exception")
    /\ UNCHANGED <<sell_vars, args, stakes_completed, price, coldkey_balance,
                   origin_stake, destination_stake, net, fail_run, fail_base>>

\* main, lines 323-337: add_stake raises.
AddStakeRaise ==
    /\ pc = "add_stake"
    /\ cyc' = [cyc EXCEPT !.submitted = Append(@, cyc.decision.amount),
                          !.result = "raised"]
    /\ pc' = "check_max"
    /\ UNCHANGED <<sell_vars, args, stakes_completed, price, coldkey_balance, origin_stake,
                   destination_stake, net, fail_run, fail_base, exit_code, log>>

\* Mutant of Confirmed: a confirmed stake counted twice.
ConfirmedTwice(done, success) == IF success THEN done + 2 ELSE done

\* Mutant of Confirmed: a confirmed stake never counted.
ConfirmedNever(done, success) == done

\* Mutant of Confirmed: the return value of add_stake ignored.
ConfirmedAlways(done, success) == done + 1

\* main, lines 338-343: what the return value of add_stake does to the
\* counter.
Confirmed(done, success) == IF success THEN done + 1 ELSE done

\* main, lines 323-343: add_stake returns.
AddStakeReturn ==
    /\ pc = "add_stake"
    /\ \E success \in BOOLEAN :
        /\ success => stakes_completed < MaxCompleted
        /\ cyc' = [cyc EXCEPT !.submitted = Append(@, cyc.decision.amount),
                              !.result = IF success THEN "true" ELSE "false"]
        /\ stakes_completed' = Confirmed(stakes_completed, success)
    /\ pc' = "check_max"
    /\ UNCHANGED <<sell_vars, args, price, coldkey_balance, origin_stake,
                   destination_stake, net, fail_run, fail_base, exit_code, log>>

\* main, lines 345-346.
CheckMax ==
    /\ pc = "check_max"
    /\ pc' = IF BudgetReached(args, stakes_completed) THEN "finish" ELSE "sleep"
    /\ UNCHANGED <<sell_vars, args, stakes_completed, price, coldkey_balance, origin_stake,
                   destination_stake, net, cyc, fail_run, fail_base, exit_code, log>>

\* main, lines 239, 284, 294, 302, 309 and 348: the duration of the sleep.
SleepDuration(a) == a.interval

\* time.sleep at the end of a cycle, or before a continue; both lead back to
\* the loop test.
Sleep ==
    /\ pc = "sleep"
    /\ cyc' = [cyc EXCEPT !.sleeps = Append(@, SleepDuration(args))]
    /\ pc' = "while"
    /\ UNCHANGED <<sell_vars, args, stakes_completed, price, coldkey_balance, origin_stake,
                   destination_stake, net, fail_run, fail_base, exit_code, log>>

\* main, lines 350-351, and line 356: the closing line and SystemExit(0).
Finish ==
    /\ pc = "finish"
    /\ log' = [log EXCEPT !.finished = Some(stakes_completed)]
    /\ exit_code' = Some(0)
    /\ pc' = "exited"
    /\ UNCHANGED <<sell_vars, args, stakes_completed, price, coldkey_balance, origin_stake,
                   destination_stake, net, cyc, fail_run, fail_base>>

\* ------------------------------------------------- buy: operator interrupt

\* Lines 27-29: typing.TYPE_CHECKING is False when the script runs.
TYPE_CHECKING == FALSE

\* The names bound at module scope when the handler of lines 357-359 runs:
\* lines 21-25, 31-34 and the definitions; bt only under TYPE_CHECKING
\* (the import of line 210 binds a local name of main).
ModuleGlobals ==
    {"argparse", "sys", "time", "dataclass", "TYPE_CHECKING", "Optional",
     "Args", "parse_args", "load_wallet", "format_balance", "main"}
    \cup (IF TYPE_CHECKING THEN {"bt", "Balance"} ELSE {})

\* Lines 357-359: the handler logs through bt and raises SystemExit(130); a
\* name that is not bound raises NameError, which ends the process with the
\* traceback and status 1.
InterruptHandler ==
    IF "bt" \in ModuleGlobals
    THEN [logged |-> TRUE, status |-> 130, error |-> ""]
    ELSE [logged |-> FALSE, status |-> 1, error |-> "NameError"]

Running == pc \notin {"exited", "idle"}

\* KeyboardInterrupt raised anywhere inside main (line 356).
Interrupt ==
    /\ Running
    /\ pc' = "exited"
    /\ log' = [log EXCEPT !.sigint = TRUE,
                          !.interrupted = InterruptHandler.logged,
                          !.error = InterruptHandler.error]
    /\ exit_code' = Some(InterruptHandler.status)
    /\ UNCHANGED <<sell_vars, args, stakes_completed, price, coldkey_balance, origin_stake,
                   destination_stake, net, cyc, fail_run, fail_base>>

\* ------------------------------------------------------------ sell: state

SellPrices ==
    UNION {{t - d, t + d} : <<t, d>> \in
              {InterestThreshold, TriggerThreshold} \X (0..PriceSpread)}

NewSellCycle ==
    [branched |-> FALSE,       \* the price tests of lines 53-57 were made
     status |-> FALSE,         \* the status line of line 55 was printed
     unstake_calls |-> 0,      \* calls of unstake()
     balance_q |-> 0,          \* get_balance calls inside unstake()
     raised |-> FALSE,         \* the body raised and line 63 caught it
     base |-> 0,               \* sell_cnt when the cycle began
     prev |-> None,            \* the stored balance when the cycle began
     observed |-> None,        \* new_balance of line 44, once read
     sleeps |-> <<>>]          \* durations passed to time.sleep, in ms

InitSell ==
    /\ s_pc = "s_start"
    /\ cnt = 0
    /\ sell_cnt = 0
    /\ balance = None
    /\ s_price = None
    /\ s_cyc = NewSellCycle

\* The watcher that is not being run.
SellIdle ==
    /\ s_pc = "idle"
    /\ cnt = 0
    /\ sell_cnt = 0
    /\ balance = None
    /\ s_price = None
    /\ s_cyc = NewSellCycle

BuyIdle ==
    /\ args = [wallet_name |-> "", wallet_hotkey |-> "default", amount_tao |-> 0,
               threshold_tao |-> 0, interval |-> 0, max_stakes |-> 0,
               dry_run |-> FALSE, allow_partial |-> FALSE, rate_tolerance |-> 0]
    /\ pc = "idle"
    /\ stakes_completed = 0
    /\ price = None
    /\ coldkey_balance = None
    /\ origin_stake = None
    /\ destination_stake = None
    /\ net = NoNet
    /\ cyc = NewCycle(0)
    /\ fail_run = 0
    /\ fail_base = 0
    /\ exit_code = None
    /\ log = [finished |-> None, interrupted |-> FALSE, sigint |-> FALSE,
              error |-> ""]

\* ------------------------------------------------------------ sell: steps

\* sell.py, line 53: the interest level, which gates the status line and cnt.
Interesting(p) == p > InterestThreshold

\* Mutant of SellTriggered: the two thresholds conflated.
SellTriggeredAtInterest(p) == p > InterestThreshold

\* sell.py, line 57: the trigger of the unstake.
SellTriggered(p) == p > TriggerThreshold

\* sell.py, lines 22-33: the connection, the counters, the first balance.
SellStartOk ==
    /\ s_pc = "s_start"
    /\ \E b \in 0..MaxSellBalance : balance' = Some(b)
    /\ cnt' = 0
    /\ sell_cnt' = 0
    /\ s_pc' = "s_poll"
    /\ UNCHANGED <<buy_vars, s_price, s_cyc>>

\* sell.py, lines 22-33: an exception at module level ends the process.
SellStartFail ==
    /\ s_pc = "s_start"
    /\ s_pc' = "s_crashed"
    /\ UNCHANGED <<buy_vars, cnt, sell_cnt, balance, s_price, s_cyc>>

\* sell.py, lines 50-52 and 24-26: the price query answers.
SellPriceOk ==
    /\ s_pc = "s_poll"
    /\ \E p \in SellPrices : s_price' = Some(p)
    /\ s_cyc' = [NewSellCycle EXCEPT !.base = sell_cnt, !.prev = balance]
    /\ s_pc' = "s_branch"
    /\ UNCHANGED <<buy_vars, cnt, sell_cnt, balance>>

\* sell.py, lines 50-52: the price query raises.
SellPriceFail ==
    /\ s_pc = "s_poll"
    /\ s_cyc' = [NewSellCycle EXCEPT !.base = sell_cnt, !.prev = balance]
    /\ s_pc' = "s_except"
    /\ UNCHANGED <<buy_vars, cnt, sell_cnt, balance, s_price>>

\* Mutant of SellBranch: a stop condition, no unstake after the first counted
\* sell.
SellBranchOnce ==
    /\ s_pc = "s_branch"
    /\ LET p == s_price[1] IN
       IF Interesting(p)
       THEN /\ cnt < MaxCnt
            /\ cnt' = cnt + 1
            /\ IF SellTriggered(p) /\ sell_cnt = 0
               THEN /\ s_cyc' = [s_cyc EXCEPT !.branched = TRUE,
                                              !.status = (cnt % StatusEvery = 0),
                                              !.unstake_calls = @ + 1]
                    /\ s_pc' = "s_cli"
               ELSE /\ s_cyc' = [s_cyc EXCEPT !.branched = TRUE,
                                              !.status = (cnt % StatusEvery = 0)]
                    /\ s_pc' = "s_sleep_short"
       ELSE /\ s_cyc' = [s_cyc EXCEPT !.branched = TRUE]
            /\ s_pc' = "s_sleep_long"
            /\ UNCHANGED cnt
    /\ UNCHANGED <<buy_vars, sell_cnt, balance, s_price>>

\* sell.py, lines 53-59 and 62: the two price tests, the status line, cnt.
SellBranch ==
    /\ s_pc = "s_branch"
    /\ LET p == s_price[1] IN
       IF Interesting(p)
       THEN /\ cnt < MaxCnt
            /\ cnt' = cnt + 1
            /\ IF SellTriggered(p)
               THEN /\ s_cyc' = [s_cyc EXCEPT !.branched = TRUE,
                                              !.status = (cnt % StatusEvery = 0),
                                              !.unstake_calls = @ + 1]
                    /\ s_pc' = "s_cli"
               ELSE /\ s_cyc' = [s_cyc EXCEPT !.branched = TRUE,
                                              !.status = (cnt % StatusEvery = 0)]
                    /\ s_pc' = "s_sleep_short"
       ELSE /\ s_cyc' = [s_cyc EXCEPT !.branched = TRUE]
            /\ s_pc' = "s_sleep_long"
            /\ UNCHANGED cnt
    /\ UNCHANGED <<buy_vars, sell_cnt, balance, s_price>>

\* unstake, lines 38-43: the scripted btcli session runs to its end.
SellCliOk ==
    /\ s_pc = "s_cli"
    /\ s_pc' = "s_new_balance"
    /\ UNCHANGED <<buy_vars, cnt, sell_cnt, balance, s_price, s_cyc>>

\* unstake, lines 38-43: pexpect raises (spawn failure, TIMEOUT, EOF).
SellCliFail ==
    /\ s_pc = "s_cli"
    /\ s_pc' = "s_except"
    /\ UNCHANGED <<buy_vars, cnt, sell_cnt, balance, s_price, s_cyc>>

\* Mutant of SellSucceeded: >= in place of >.
SellSucceededOrEqual(new_balance, previous) == new_balance >= previous

\* Mutant of SellSucceeded: any change of the balance counts.
SellSucceededChanged(new_balance, previous) == new_balance # previous

\* unstake, line 45: the balance delta that counts as a successful sell.
SellSucceeded(new_balance, previous) == new_balance > previous

\* unstake, lines 44-48: the balance after the submission and the comparison.
SellNewBalanceOk ==
    /\ s_pc = "s_new_balance"
    /\ \E new_balance \in 0..MaxSellBalance :
        /\ IF SellSucceeded(new_balance, balance[1])
           THEN /\ sell_cnt' = sell_cnt + 1
                /\ balance' = Some(new_balance)
           ELSE UNCHANGED <<sell_cnt, balance>>
        /\ s_cyc' = [s_cyc EXCEPT !.balance_q = @ + 1,
                                  !.observed = Some(new_balance)]
    /\ s_pc' = "s_sleep_short"
    /\ UNCHANGED <<buy_vars, cnt, s_price>>

\* unstake, line 44: the balance query raises.
SellNewBalanceFail ==
    /\ s_pc = "s_new_balance"
    /\ s_cyc' = [s_cyc EXCEPT !.balance_q = @ + 1]
    /\ s_pc' = "s_except"
    /\ UNCHANGED <<buy_vars, cnt, sell_cnt, balance, s_price>>

\* sell.py, lines 60-61.
SellSleepShort ==
    /\ s_pc = "s_sleep_short"
    /\ s_cyc' = [s_cyc EXCEPT !.sleeps = Append(@, ShortSleepMs)]
    /\ s_pc' = "s_poll"
    /\ UNCHANGED <<buy_vars, cnt, sell_cnt, balance, s_price>>

\* Mutant of SellSleepLong: the idle branch sleeps the short duration.
SellSleepLongShort ==
    /\ s_pc = "s_sleep_long"
    /\ s_cyc' = [s_cyc EXCEPT !.sleeps = Append(@, ShortSleepMs)]
    /\ s_pc' = "s_poll"
    /\ UNCHANGED <<buy_vars, cnt, sell_cnt, balance, s_price>>

\* sell.py, line 62.
SellSleepLong ==
    /\ s_pc = "s_sleep_long"
    /\ s_cyc' = [s_cyc EXCEPT !.sleeps = Append(@, LongSleepMs)]
    /\ s_pc' = "s_poll"
    /\ UNCHANGED <<buy_vars, cnt, sell_cnt, balance, s_price>>

\* sell.py, lines 63-65: the handler of the loop body.
SellExcept ==
    /\ s_pc = "s_except"
    /\ s_cyc' = [s_cyc EXCEPT !.raised = TRUE,
                              !.sleeps = Append(@, LongSleepMs)]
    /\ s_pc' = "s_poll"
    /\ UNCHANGED <<buy_vars, cnt, sell_cnt, balance, s_price>>

\* KeyboardInterrupt is no Exception: line 63 does not catch it.
SellInterrupt ==
    /\ s_pc \notin {"idle", "s_crashed", "s_interrupted"}
    /\ s_pc' = "s_interrupted"
    /\ UNCHANGED <<buy_vars, cnt, sell_cnt, balance, s_price, s_cyc>>

\* --------------------------------------------------------- specifications

\* The buy watcher.
Init == InitBuy /\ SellIdle

Next ==
    \/ ParseArgs
    \/ ImportOk \/ ImportFail
    \/ LoadWalletOk \/ LoadWalletFail
    \/ ConnectOk \/ ConnectFail
    \/ While
    \/ GetPriceOk \/ GetPriceFail
    \/ GetBalanceOk \/ GetBalanceFail
    \/ GetOriginStakeOk \/ GetOriginStakeFail
    \/ GetDestinationStakeOk \/ GetDestinationStakeFail
    \/ Decide
    \/ AddStakeRaise \/ AddStakeReturn
    \/ CheckMax
    \/ Sleep
    \/ Finish
    \/ Interrupt

Spec == Init /\ [][Next]_vars

\* A step of main itself: every step of Next but the operator's interrupt.
MainStep ==
    \/ ParseArgs
    \/ ImportOk \/ ImportFail
    \/ LoadWalletOk \/ LoadWalletFail
    \/ ConnectOk \/ ConnectFail
    \/ While
    \/ GetPriceOk \/ GetPriceFail
    \/ GetBalanceOk \/ GetBalanceFail
    \/ GetOriginStakeOk \/ GetOriginStakeFail
    \/ GetDestinationStakeOk \/ GetDestinationStakeFail
    \/ Decide
    \/ AddStakeRaise \/ AddStakeReturn
    \/ CheckMax
    \/ Sleep
    \/ Finish

\* The buy watcher with a budget and with progress: every call of main returns or raises and
\* every time.sleep ends, so main takes its next step as long as it has one;
\* nothing obliges the operator to interrupt.
\* The watcher started with a positive budget (--max-stakes M, M > 0).
InitLive == Init /\ args.max_stakes > 0

SpecLive == InitLive /\ [][Next]_vars /\ WF_vars(MainStep)

\* The sell watcher.
InitS == BuyIdle /\ InitSell

NextSell ==
    \/ SellStartOk \/ SellStartFail
    \/ SellPriceOk \/ SellPriceFail
    \/ SellBranch
    \/ SellCliOk \/ SellCliFail
    \/ SellNewBalanceOk \/ SellNewBalanceFail
    \/ SellSleepShort \/ SellSleepLong
    \/ SellExcept
    \/ SellInterrupt

SpecSell == InitS /\ [][NextSell]_vars

\* Either watcher: one of the two scripts is started and runs alone.
InitBoth == Init \/ InitS

NextBoth ==
    \/ ParseArgs
    \/ ImportOk \/ ImportFail
    \/ LoadWalletOk \/ LoadWalletFail
    \/ ConnectOk \/ ConnectFail
    \/ While
    \/ GetPriceOk \/ GetPriceFail
    \/ GetBalanceOk \/ GetBalanceFail
    \/ GetOriginStakeOk \/ GetOriginStakeFail
    \/ GetDestinationStakeOk \/ GetDestinationStakeFail
    \/ Decide
    \/ AddStakeRaise \/ AddStakeReturn
    \/ CheckMax
    \/ Sleep
    \/ Finish
    \/ Interrupt
    \/ SellStartOk \/ SellStartFail
    \/ SellPriceOk \/ SellPriceFail
    \/ SellBranch
    \/ SellCliOk \/ SellCliFail
    \/ SellNewBalanceOk \/ SellNewBalanceFail
    \/ SellSleepShort \/ SellSleepLong
    \/ SellExcept
    \/ SellInterrupt

SpecBoth == InitBoth /\ [][NextBoth]_vars

\* ================================================================ claims

\* The cycle has evaluated lines 277-312.
Decided == cyc.decision.kind # "Pending"

\* The balance of the cycle is known and is at least the requested amount.
BalanceCovers == coldkey_balance # None /\ Tao(coldkey_balance[1]) >= args.amount_tao

\* The balance of the cycle is known, positive and below the requested amount.
BalanceShort ==
    /\ coldkey_balance # None
    /\ 0 < Tao(coldkey_balance[1])
    /\ Tao(coldkey_balance[1]) < args.amount_tao

\* Nothing was staked in the cycle: no add_stake call, no dry-run line, and
\* the counter is where the cycle found it.
NothingStaked ==
    /\ cyc.submitted = <<>>
    /\ cyc.dry_logged = <<>>
    /\ cyc.result = "none"
    /\ stakes_completed = cyc.base

\* The process left the loop only through an operator interrupt.
OnlyInterrupted == pc = "exited" => log.sigint /\ log.finished = None

\* A skipped cycle sleeps the interval once and the loop test then passes.
SleepsAndPollsAgain ==
    /\ pc \in {"sleep", "while", "exited"}
    /\ OnlyInterrupted
    /\ pc = "sleep" => cyc.sleeps = <<>>
    /\ pc = "while" => /\ cyc.sleeps = <<args.interval>>
                       /\ LoopCondition(args, stakes_completed)

\* A live cycle that decided Execute calls add_stake once, with this amount:
\* either the call is still to come (or an interrupt came first), or it was
\* made with the amount.
LiveSubmits(amount) ==
    IF cyc.result = "none"
    THEN cyc.submitted = <<>> /\ pc \in {"add_stake", "exited"}
    ELSE cyc.submitted = <<amount>>

\* C1: whenever a cycle has decided with price <= threshold, partial execution
\* disallowed and a known balance >= the requested amount, the decision is
\* Execute of the requested amount (Balance.from_tao of --amount-tao, the
\* target_amount of line 227); the dry-run line logs that amount and add_stake
\* is passed that amount.
C1_ExecuteRequested ==
    (/\ Decided
     /\ Tao(price[1]) <= args.threshold_tao
     /\ ~args.allow_partial
     /\ BalanceCovers)
    => /\ cyc.decision = Execute(FromTao(args.amount_tao))
       /\ args.dry_run => cyc.dry_logged = <<FromTao(args.amount_tao)>>
       /\ ~args.dry_run => LiveSubmits(FromTao(args.amount_tao))

\* C1 witness: a live cycle with a balance strictly above the requested
\* amount has passed the requested amount, not the balance, to add_stake.
C1_Witness ==
    /\ Decided
    /\ Tao(price[1]) <= args.threshold_tao
    /\ ~args.allow_partial
    /\ ~args.dry_run
    /\ BalanceCovers
    /\ coldkey_balance[1] # FromTao(args.amount_tao)
    /\ cyc.submitted = <<FromTao(args.amount_tao)>>
    /\ cyc.result = "true"

\* C2 (buy half): a decided cycle whose price equals the threshold is not
\* turned away by the price test.
C2_BuyBoundary ==
    Decided /\ Tao(price[1]) = args.threshold_tao
    => cyc.decision.reason # "above_threshold"

\* C2 (sell half): a cycle of the sell watcher whose price equals the trigger
\* threshold invokes unstake.
C2_SellBoundary ==
    s_cyc.branched /\ s_price[1] = TriggerThreshold => s_cyc.unstake_calls = 1

\* C2: a price exactly equal to the trigger threshold triggers the action in
\* both watchers.
C2_BoundaryTriggers == C2_BuyBoundary /\ C2_SellBoundary

\* C2, what sell.py does: unstake is invoked exactly in the cycles whose price
\* is strictly above the trigger threshold.
C2_SellStrict ==
    s_cyc.branched => (s_cyc.unstake_calls = 1 <=> s_price[1] > TriggerThreshold)

\* C3: a decided cycle whose price is strictly above the threshold stakes
\* nothing, whatever the balance and the flags, then sleeps the interval once
\* and polls again.
C3_AboveThresholdIdle ==
    Decided /\ Tao(price[1]) > args.threshold_tao
    => /\ cyc.decision.kind = "None"
       /\ NothingStaked
       /\ SleepsAndPollsAgain

\* C3 witness: such a cycle, with a balance that would have covered the stake,
\* has slept and is back at the loop test.
C3_Witness ==
    /\ Decided
    /\ Tao(price[1]) > args.threshold_tao
    /\ BalanceCovers
    /\ pc = "while"
    /\ cyc.sleeps = <<args.interval>>

\* C4: in a decided cycle with price <= threshold and a known balance b with
\* 0 < b < requested, the decision is None and nothing is staked when partial
\* execution is disallowed, and is Execute(b) = Execute(min(b, requested)) when
\* it is allowed.
C4_ShortBalance ==
    (Decided /\ Tao(price[1]) <= args.threshold_tao /\ BalanceShort)
    => IF args.allow_partial
       THEN /\ cyc.decision = Execute(coldkey_balance[1])
            /\ Tao(cyc.decision.amount) =
                   Min(Tao(coldkey_balance[1]), args.amount_tao)
            /\ args.dry_run => cyc.dry_logged = <<coldkey_balance[1]>>
            /\ ~args.dry_run => LiveSubmits(coldkey_balance[1])
       ELSE /\ cyc.decision.kind = "None"
            /\ NothingStaked

\* C4 witness (partial allowed): add_stake was passed the balance, which is
\* below what Balance.from_tao makes of the requested amount.
C4_Witness ==
    /\ Decided
    /\ Tao(price[1]) <= args.threshold_tao
    /\ BalanceShort
    /\ args.allow_partial
    /\ coldkey_balance[1] < FromTao(args.amount_tao)
    /\ cyc.submitted = <<coldkey_balance[1]>>

\* C4 (partial disallowed): the skipped cycle is reached too.
C4_WitnessDisallowed ==
    /\ Decided
    /\ Tao(price[1]) <= args.threshold_tao
    /\ BalanceShort
    /\ ~args.allow_partial
    /\ pc = "while"

\* C5: in a decided cycle whose balance query failed or answered a balance
\* <= 0, the decision is None for every price and every flag, nothing is
\* staked or counted, the cycle was not cut short (both stake queries were
\* made after the balance query) and the loop sleeps and polls again.
C5_NoBalanceNoStake ==
    (Decided /\ (coldkey_balance = None \/ Tao(coldkey_balance[1]) <= 0))
    => /\ cyc.decision.kind = "None"
       /\ NothingStaked
       /\ cyc.balance_q = 1
       /\ cyc.stake_q = 2
       /\ SleepsAndPollsAgain

\* C5 witness: dry-run mode, price <= threshold, balance query failed; the
\* cycle ended with the counter untouched.
C5_Witness ==
    /\ Decided
    /\ coldkey_balance = None
    /\ Tao(price[1]) <= args.threshold_tao
    /\ args.dry_run
    /\ pc = "while"
    /\ stakes_completed = cyc.base

\* C5: the same with a balance of zero and partial execution allowed.
C5_WitnessZero ==
    /\ Decided
    /\ coldkey_balance = Some(0)
    /\ Tao(price[1]) <= args.threshold_tao
    /\ args.allow_partial
    /\ pc = "while"

\* C6: during a run of N >= 1 consecutive cycles whose price query failed the
\* counter stays where the run found it, no balance or stake query and no
\* submission is made, each failed cycle sleeps the interval once, and the
\* loop is still polling (it left only if the operator interrupted it).
C6_PriceFailureRecoverable ==
    fail_run > 0
    => /\ stakes_completed = fail_base
       /\ cyc.balance_q = 0
       /\ cyc.stake_q = 0
       /\ ~Decided
       /\ NothingStaked
       /\ pc \in {"sleep", "while", "get_price", "exited"}
       /\ OnlyInterrupted
       /\ cyc.price_failed /\ pc = "sleep" => cyc.sleeps = <<>>
       /\ cyc.price_failed /\ pc = "while" => cyc.sleeps = <<args.interval>>
       /\ pc = "while" => LoopCondition(args, stakes_completed)

\* C6 witness: the longest run of failures the model allows, after a stake
\* was counted, with the loop back at the loop test.
C6_Witness ==
    /\ fail_run = MaxFailRun
    /\ fail_base > 0
    /\ pc = "while"
    /\ cyc.sleeps = <<args.interval>>

\* C7: in live mode the counter moves in a cycle only by one and only when
\* add_stake was called in that cycle and returned true; when add_stake raised
\* or returned false the counter is unchanged and the loop goes on to sleep
\* the interval and to poll again.
C7_CountOnlyOnSuccess ==
    ~args.dry_run
    => /\ stakes_completed # cyc.base
          => /\ cyc.result = "true"
             /\ Len(cyc.submitted) = 1
             /\ stakes_completed = cyc.base + 1
       /\ cyc.result \in {"raised", "false"}
          => /\ stakes_completed = cyc.base
             /\ pc \in {"check_max", "sleep", "while", "exited"}
             /\ OnlyInterrupted
             /\ pc = "sleep" => cyc.sleeps = <<>>
             /\ pc = "while" => /\ cyc.sleeps = <<args.interval>>
                                /\ LoopCondition(args, stakes_completed)

\* C7 witness: add_stake returned false and the loop is back at the loop test
\* with the counter unchanged.
C7_Witness ==
    /\ ~args.dry_run
    /\ cyc.result = "false"
    /\ pc = "while"
    /\ stakes_completed = cyc.base

\* C7: the same after add_stake raised.
C7_WitnessRaised ==
    /\ ~args.dry_run
    /\ cyc.result = "raised"
    /\ pc = "while"

\* C8: in dry-run mode add_stake is never called, and a cycle whose decision
\* is Execute counts exactly one action while any other cycle counts none.
C8_DryRun ==
    args.dry_run
    => /\ cyc.submitted = <<>>
       /\ cyc.result = "none"
       /\ pc # "add_stake"
       /\ IF cyc.decision.kind = "Execute"
          THEN stakes_completed = cyc.base + 1 /\ Len(cyc.dry_logged) = 1
          ELSE stakes_completed = cyc.base /\ cyc.dry_logged = <<>>

\* C8 witness: the second dry-run Execute of a run.
C8_Witness ==
    /\ args.dry_run
    /\ cyc.decision.kind = "Execute"
    /\ cyc.base = 1
    /\ stakes_completed = 2

\* The loop has stopped: line 346 or line 230 left it.
Stopped == pc = "finish" \/ (pc = "exited" /\ log.finished # None)

\* Once the loop is left, a step makes no query, submission or sleep and
\* counts nothing; it only ends the process.
StoppedStays ==
    pc \in {"finish", "exited"}
    => (cyc' = cyc /\ stakes_completed' = stakes_completed /\ pc' = "exited")

\* C9: with max-actions > 0 the loop stops at the end of the cycle in which
\* the counter reaches max-actions, without sleeping; once stopped it makes no
\* query, no submission and no sleep; with max-actions = 0 it never stops by
\* itself.
C9_StopCondition ==
    /\ [](/\ (pc # "parse_args" /\ args.max_stakes > 0
                 /\ stakes_completed >= args.max_stakes)
             => pc \in {"check_max", "finish", "exited"}
          /\ Stopped
             => /\ args.max_stakes > 0
                /\ stakes_completed = args.max_stakes
                /\ stakes_completed = cyc.base + 1
                /\ cyc.sleeps = <<>>
          /\ args.max_stakes = 0 => ~Stopped /\ exit_code # Some(0))
    /\ [][StoppedStays]_vars

\* C9 witness: max-actions = 2, the second action was counted and the run has
\* ended with status 0.
C9_Witness ==
    /\ args.max_stakes = 2
    /\ stakes_completed = 2
    /\ pc = "exited"
    /\ exit_code = Some(0)
    /\ log.finished = Some(2)

\* C9: with max-actions = 0 the loop goes on after MaxCompleted actions.
C9_WitnessForever ==
    /\ args.max_stakes = 0
    /\ stakes_completed = MaxCompleted
    /\ pc = "get_price"

\* C10: an operator interrupt at any point of the run ends the process with
\* the interruption logged, the final action count reported and status 130.
C10_InterruptExits130 ==
    log.sigint
    => /\ exit_code = Some(130)
       /\ log.interrupted
       /\ log.finished # None

\* C10, the status alone: an interrupted run ends with status 130.
C10_Status130 == log.sigint => exit_code = Some(130)

\* What the command line help and the messages of parser.error call invalid:
\* amount <= 0, threshold <= 0, interval <= 0, max-actions < 0, rate
\* tolerance < 0, or no wallet name.
ArgsRejected ==
    \/ args.amount_tao <= 0
    \/ args.threshold_tao <= 0
    \/ args.interval <= 0
    \/ args.max_stakes < 0
    \/ args.rate_tolerance < 0
    \/ args.wallet_name = ""

\* C11: a run with invalid arguments never gets past parse_args: no import of
\* the chain client, no wallet load, no connection, no query, no submission
\* and no sleep; when it has ended its exit status is not zero.
C11_InvalidArgsAbort ==
    (pc # "idle" /\ ArgsRejected)
    => /\ pc \in {"parse_args", "exited"}
       /\ net = NoNet
       /\ cyc = NewCycle(0)
       /\ price = None
       /\ stakes_completed = 0
       /\ pc = "exited" => exit_code # None /\ exit_code[1] # 0

\* C11 witness: a negative rate tolerance alone made parser.error end the run
\* with status 2 and the network untouched.
C11_Witness ==
    /\ args.rate_tolerance < 0
    /\ args.amount_tao > 0 /\ args.threshold_tao > 0 /\ args.interval > 0
    /\ args.max_stakes >= 0 /\ args.wallet_name # ""
    /\ pc = "exited"
    /\ exit_code = Some(2)
    /\ net = NoNet

\* The failures a cycle of the buy watcher can meet.
PriceFailed == cyc.price_failed
BalanceFailed == cyc.balance_q = 1 /\ coldkey_balance = None
StakeQueryFailed ==
    \/ cyc.stake_q >= 1 /\ origin_stake = None
    \/ cyc.stake_q = 2 /\ destination_stake = None
SubmissionFailed == cyc.result = "raised"
BuyCycleFailed ==
    PriceFailed \/ BalanceFailed \/ StakeQueryFailed \/ SubmissionFailed

\* A failure was raised in the current cycle of the sell watcher.
SellCycleFailed == s_pc = "s_except" \/ s_cyc.raised

\* The buy watcher did not end with an exception raised by its loop body.
BuyNoCrash ==
    /\ log.error \notin {"Exception", "RuntimeError"}
    /\ pc = "exited" => log.sigint \/ log.finished # None

\* A failed cycle of the sell watcher is caught: the handler sleeps and the
\* loop polls again, with nothing counted.
SellFailureCaught ==
    /\ SellCycleFailed
       => /\ s_pc \in {"s_except", "s_poll", "s_interrupted"}
          /\ sell_cnt = s_cyc.base
          /\ balance = s_cyc.prev
          /\ s_pc = "s_poll" => s_cyc.raised /\ s_cyc.sleeps = <<LongSleepMs>>
    /\ s_pc = "s_crashed" => balance = None

\* C12 as stated: in both watchers a failure raised inside a cycle is caught
\* and makes the cycle a skipped one (nothing submitted with success, nothing
\* counted), the loop goes on with the next cycle, and only an operator
\* interrupt leaves the loop.
C12_FailuresSkipCycle ==
    /\ BuyCycleFailed
       => /\ BuyNoCrash
          /\ stakes_completed = cyc.base
          /\ cyc.result # "true"
          /\ cyc.dry_logged = <<>>
          /\ pc # "finish"
          /\ OnlyInterrupted
    /\ SellFailureCaught

\* C12 as amended: in both watchers a failure raised inside a cycle is caught
\* and never ends the process.  A failed price query, a failed balance query
\* and a failed submission leave the cycle with nothing counted, and after
\* them only an operator interrupt leaves the loop.  A failed stake query of
\* the buy watcher skips nothing: the cycle goes on, may submit and count one
\* action, and may then stop the loop on the action budget.  In the sell
\* watcher a failed cycle counts nothing and sleeps the long duration.
C12_FailuresCaught ==
    /\ BuyCycleFailed
       => /\ BuyNoCrash
          /\ stakes_completed \in {cyc.base, cyc.base + 1}
          /\ (PriceFailed \/ BalanceFailed \/ SubmissionFailed)
             => /\ stakes_completed = cyc.base
                /\ cyc.result # "true"
                /\ cyc.dry_logged = <<>>
                /\ pc # "finish"
                /\ OnlyInterrupted
          /\ Stopped
             => /\ stakes_completed = cyc.base + 1
                /\ BudgetReached(args, stakes_completed)
    /\ SellFailureCaught

\* C12 witness: both stake queries of a live cycle failed, add_stake was
\* still called and returned true, the action was counted and the loop is
\* back at the loop test.
C12_Witness ==
    /\ cyc.stake_q = 2
    /\ origin_stake = None
    /\ destination_stake = None
    /\ cyc.result = "true"
    /\ stakes_completed = cyc.base + 1
    /\ pc = "while"

\* C12: a failed submission of the buy watcher, caught, with the loop back at
\* the loop test.
C12_WitnessSubmission ==
    /\ SubmissionFailed
    /\ pc = "while"
    /\ stakes_completed = cyc.base

\* C12: a failed scripted CLI session of the sell watcher, caught, with the
\* loop polling again.
C12_WitnessSell ==
    /\ s_cyc.unstake_calls = 1
    /\ s_cyc.raised
    /\ s_cyc.balance_q = 0
    /\ s_pc = "s_poll"

\* C13: an unstake attempt increments the sell counter, by one, if and only
\* if the balance read after the submission is strictly greater than the
\* stored previous balance; an equal or lower balance leaves the counter, and
\* a cycle that never read the new balance (no attempt, or a failure before
\* the comparison) leaves it too.
C13_CountIffBalanceGrew ==
    /\ s_cyc.observed # None
       => IF s_cyc.observed[1] > s_cyc.prev[1]
          THEN sell_cnt = s_cyc.base + 1
          ELSE sell_cnt = s_cyc.base
    /\ s_cyc.observed = None /\ s_pc # "s_start" => sell_cnt = s_cyc.base

\* C13 witness: the balance read after the submission equals the stored one
\* and the counter, already at one, stayed.
C13_Witness ==
    /\ s_cyc.observed # None
    /\ s_cyc.observed = s_cyc.prev
    /\ s_cyc.base = 1
    /\ sell_cnt = 1

\* C13: a counted sell.
C13_WitnessCounted ==
    /\ s_cyc.observed # None
    /\ s_cyc.observed[1] > s_cyc.prev[1]
    /\ sell_cnt = s_cyc.base + 1

\* C14: in a cycle that has made its price tests, unstake is invoked (once)
\* exactly when the price is above the trigger threshold, whatever its
\* relation to the interest threshold; the interest threshold decides only
\* whether the status line can be printed.
C14_TriggerAloneGatesAction ==
    s_cyc.branched
    => /\ s_cyc.unstake_calls = (IF s_price[1] > TriggerThreshold THEN 1 ELSE 0)
       /\ s_cyc.status => s_price[1] > InterestThreshold

\* C14 witness: a price above the interest threshold and not above the
\* trigger threshold printed the status line and did not unstake.
C14_Witness ==
    /\ s_cyc.branched
    /\ s_price[1] > InterestThreshold
    /\ s_price[1] <= TriggerThreshold
    /\ s_cyc.status
    /\ s_cyc.unstake_calls = 0
    /\ s_pc = "s_poll"

\* A cycle of the sell watcher has run to its sleep.
SellCycleDone == s_pc = "s_poll" /\ (s_cyc.branched \/ s_cyc.raised)

C16_WitnessIdle ==
    /\ SellCycleDone
    /\ ~s_cyc.raised
    /\ s_price[1] <= InterestThreshold
    /\ s_cyc.sleeps = <<LongSleepMs>>

\* Once the first balance is stored (line 33), a step changes the stored
\* balance exactly when it increments the sell counter, and then to a
\* strictly larger value; the counter moves by one at most.
BalanceFollowsCounter ==
    balance # None
    => /\ sell_cnt' \in {sell_cnt, sell_cnt + 1}
       /\ (balance' # balance) <=> (sell_cnt' = sell_cnt + 1)
       /\ balance' # None
       /\ balance'[1] >= balance[1]

\* C19: the stored last-known balance changes only in the step that
\* increments the sell counter and only to a strictly larger value, so that
\* it never decreases and is not refreshed by an equal or lower reading.
C19_BalanceMonotone == [][BalanceFollowsCounter]_vars

\* C19 witness: a lower reading after a counted sell left the stored balance.
C19_Witness ==
    /\ s_cyc.base = 1
    /\ s_cyc.observed # None
    /\ s_cyc.observed[1] < s_cyc.prev[1]
    /\ balance = s_cyc.prev
    /\ sell_cnt = 1

\* The positions inside the loop of the sell watcher.
SellLoopPcs ==
    {"s_poll", "s_branch", "s_cli", "s_new_balance", "s_sleep_short",
     "s_sleep_long", "s_except"}

\* A step of the loop of the sell watcher other than an operator interrupt.
SellLoopStep ==
    \/ SellPriceOk \/ SellPriceFail
    \/ SellBranch
    \/ SellCliOk \/ SellCliFail
    \/ SellNewBalanceOk \/ SellNewBalanceFail
    \/ SellSleepShort \/ SellSleepLong
    \/ SellExcept

\* C20: the sell watcher has no stop condition.  Every cycle whose price is
\* above the trigger threshold invokes unstake once, whatever the sell counter
\* and whatever earlier attempts did; once the loop has started the watcher
\* is inside the loop unless the operator interrupted it, and inside the loop
\* a further step of the loop is always possible (up to the cap on cnt).
C20_NoStopCondition ==
    /\ s_cyc.branched /\ s_price[1] > TriggerThreshold
       => s_cyc.unstake_calls = 1
    /\ s_pc \in SellLoopPcs \cup {"s_start", "s_crashed", "s_interrupted", "idle"}
    /\ s_pc = "s_crashed" => balance = None /\ s_price = None
    /\ s_pc \in SellLoopPcs /\ cnt < MaxCnt => ENABLED SellLoopStep

\* C20 witness: after as many counted sells as the balances of the model
\* allow, a further cycle above the trigger invoked unstake again.
C20_Witness ==
    /\ s_cyc.base = MaxSellBalance
    /\ s_cyc.branched
    /\ s_price[1] > TriggerThreshold
    /\ s_cyc.unstake_calls = 1

\* C15: a cycle makes one price query and at most one sleep, always of the
\* configured interval; a cycle that did not stop the loop is back at the loop
\* test only after exactly one sleep, so that the next price query follows a
\* sleep; the cycle that stops the loop does not sleep.
C15_OneSleepPerCycle ==
    pc # "idle"
    => /\ cyc.price_q <= 1
       /\ Len(cyc.sleeps) <= 1
       /\ \A i \in 1..Len(cyc.sleeps) : cyc.sleeps[i] = args.interval
       /\ pc = "get_price" => cyc.price_q = 0 /\ cyc.sleeps = <<>>
       /\ pc = "while" /\ cyc.price_q = 1 => cyc.sleeps = <<args.interval>>
       /\ pc = "while" /\ cyc.price_q = 0 => cyc = NewCycle(0) /\ price = None
       /\ pc \in {"get_balance", "get_origin_stake", "get_destination_stake",
                  "decide", "add_stake", "check_max", "sleep", "finish"}
          => cyc.price_q = 1 /\ cyc.sleeps = <<>>

\* C15 witness: a cycle that executed an action below the budget has slept
\* once and is back at the loop test.
C15_Witness ==
    /\ pc = "while"
    /\ cyc.result = "true"
    /\ args.max_stakes = 2
    /\ stakes_completed = 1
    /\ cyc.sleeps = <<args.interval>>

\* C15: the insufficient-funds path slept once too.
C15_WitnessInsufficient ==
    /\ pc = "while"
    /\ cyc.decision.reason = "insufficient"
    /\ cyc.sleeps = <<args.interval>>

\* The counter never decreases and grows by at most one in a step.
CounterStep ==
    /\ stakes_completed' >= stakes_completed
    /\ stakes_completed' <= stakes_completed + 1

\* C17: in every reachable state 0 <= stakes_completed, and stakes_completed
\* <= max-actions when max-actions > 0; within a cycle the counter is at the
\* value the cycle began with or one above it; no step decreases it or adds
\* more than one.
C17_CounterBounds ==
    /\ [](/\ 0 <= stakes_completed
          /\ args.max_stakes > 0 => stakes_completed <= args.max_stakes
          /\ stakes_completed \in {cyc.base, cyc.base + 1})
    /\ [][CounterStep]_vars

\* C17 witness: the counter at the budget, in the cycle that reached it.
C17_Witness ==
    /\ args.max_stakes = 1
    /\ stakes_completed = 1
    /\ cyc.base = 0
    /\ cyc.result = "true"
    /\ pc = "check_max"

\* The favourable condition of a state: a positive budget, no interrupt, no
\* startup failure, no rejected arguments, and whatever the current cycle has
\* observed so far is a price at or under the threshold, a known balance of
\* at least the requested amount and no failed or unconfirmed submission.
Favourable ==
    /\ args.max_stakes > 0
    /\ exit_code \in {None, Some(0)}
    /\ ~log.sigint
    /\ log.error = ""
    /\ ~cyc.price_failed
    /\ price # None => BuyTriggered(Tao(price[1]), args.threshold_tao)
    /\ cyc.balance_q > 0
       => coldkey_balance # None /\ Tao(coldkey_balance[1]) >= args.amount_tao
    /\ cyc.result \in {"none", "true"}

\* Main has returned 0 with the budget used up.
StoppedAtBudget ==
    /\ pc = "exited"
    /\ exit_code = Some(0)
    /\ stakes_completed = args.max_stakes
    /\ log.finished = Some(args.max_stakes)

\* The counter grows only in a cycle whose price was at or under the threshold
\* and whose action was a dry run or a confirmed submission.
CountedOnlyWhenFavourable ==
    stakes_completed' # stakes_completed
    => /\ price' # None
       /\ BuyTriggered(Tao(price'[1]), args.threshold_tao)
       /\ coldkey_balance' # None
       /\ args.dry_run \/ cyc'.result = "true"

\* C18: with max-actions = M > 0, if from some point on every cycle is
\* favourable, main eventually returns 0 with stakes_completed = M; the loop
\* stops only at stakes_completed = M, and the counter moves only in a cycle
\* with a price at or under the threshold and a dry run or a confirmed
\* submission, so that with the price always above the threshold or with
\* submissions always failing the loop never stops.
C18_Termination ==
    /\ <>[]Favourable => <>StoppedAtBudget
    /\ [](Stopped => args.max_stakes > 0 /\ stakes_completed = args.max_stakes)
    /\ [][CountedOnlyWhenFavourable]_vars

\* C18 witness: a live run that used up a budget of two and returned 0, every
\* state favourable.
C18_Witness ==
    /\ StoppedAtBudget
    /\ Favourable
    /\ args.max_stakes = MaxStakes
    /\ ~args.dry_run
    /\ cyc.result = "true"

\* C18: a cycle of submissions that failed, the loop still running.
C18_WitnessFailing ==
    /\ pc = "while"
    /\ args.max_stakes > 0
    /\ cyc.result = "false"
    /\ stakes_completed = 0
====
